---- MODULE Spec2Model ----
(***************************************************************************)
(* Binance MCP server: the tool handler of createServer (server.ts), the   *)
(* dispatch of handleToolCall, and the three request modes of              *)
(* BinanceClient (publicGet, userStreamRequest, signedRequest) with the    *)
(* query canonicalizer and the HMAC signing primitive.                     *)
(*                                                                         *)
(* Strings are sequences of one-character strings, so that stringifying,   *)
(* form-urlencoding, joining and hex-encoding are computed character by    *)
(* character as the code computes them.  JavaScript values are records     *)
(* [t, s, n] with a type tag t.                                            *)
(***************************************************************************)
EXTENDS Integers, Sequences, FiniteSets, TLC

\* ------------------------------------------------------------------ bounds

\* The exchange clock answers /api/v3/time with a value in 1..MaxServerTime.
MaxServerTime == 2

\* ------------------------------------------------------------- characters

\* Printable ASCII in two runs: AsciiLow[i] is the character of code 31 + i
\* (codes 32..95) and AsciiHigh[i] the character of code 96 + i (97..126).
\* Code 96, the grave accent, is not in the alphabet of the model.
AsciiLow ==
  << " ", "!", "\"", "#", "$", "%", "&", "'", "(", ")", "*", "+", ",", "-", ".", "/",
     "0", "1", "2", "3", "4", "5", "6", "7", "8", "9", ":", ";", "<", "=", ">", "?",
     "@", "A", "B", "C", "D", "E", "F", "G", "H", "I", "J", "K", "L", "M", "N", "O",
     "P", "Q", "R", "S", "T", "U", "V", "W", "X", "Y", "Z", "[", "\\", "]", "^", "_" >>

AsciiHigh ==
  << "a", "b", "c", "d", "e", "f", "g", "h", "i", "j", "k", "l", "m", "n", "o",
     "p", "q", "r", "s", "t", "u", "v", "w", "x", "y", "z", "{", "|", "}", "~" >>

Chars == {AsciiLow[i] : i \in 1..Len(AsciiLow)} \cup {AsciiHigh[i] : i \in 1..Len(AsciiHigh)}

\* TextEncoder.encode on ASCII text: one byte per character, its code.
CodeOf ==
  [c \in Chars |->
    IF \E i \in 1..Len(AsciiLow) : AsciiLow[i] = c
    THEN 31 + (CHOOSE i \in 1..Len(AsciiLow) : AsciiLow[i] = c)
    ELSE 96 + (CHOOSE i \in 1..Len(AsciiHigh) : AsciiHigh[i] = c)]

LowerHexDigits == <<"0", "1", "2", "3", "4", "5", "6", "7", "8", "9", "a", "b", "c", "d", "e", "f">>
UpperHexDigits == <<"0", "1", "2", "3", "4", "5", "6", "7", "8", "9", "A", "B", "C", "D", "E", "F">>

\* Concatenation of the strings ss[lo..hi], of all of ss, and of all of ss
\* with a separator between them.  The range is halved at each step.
RECURSIVE ConcatRange(_, _, _)
ConcatRange(ss, lo, hi) ==
  IF lo > hi THEN <<>>
  ELSE IF lo = hi THEN ss[lo]
  ELSE ConcatRange(ss, lo, (lo + hi) \div 2) \o ConcatRange(ss, ((lo + hi) \div 2) + 1, hi)

Concat(ss) == ConcatRange(ss, 1, Len(ss))

Join(ss, sep) == Concat([i \in 1..Len(ss) |-> IF i = 1 THEN ss[i] ELSE sep \o ss[i]])

\* Number.prototype.toString(10) on an integer.
RECURSIVE NatToStr(_)
NatToStr(n) ==
  IF n < 10 THEN <<LowerHexDigits[n + 1]>>
  ELSE NatToStr(n \div 10) \o <<LowerHexDigits[(n % 10) + 1]>>

IntToStr(n) == IF n < 0 THEN <<"-">> \o NatToStr(0 - n) ELSE NatToStr(n)

\* ------------------------------------------------------ JavaScript values

Undefined == [t |-> "undefined", s |-> <<>>, n |-> 0]
Null == [t |-> "null", s |-> <<>>, n |-> 0]
Str(s) == [t |-> "string", s |-> s, n |-> 0]
Num(n) == [t |-> "number", s |-> <<>>, n |-> n]

\* ToBoolean: what `||`, `!` and `if` test.
Truthy(v) ==
  CASE v.t = "undefined" -> FALSE
    [] v.t = "null" -> FALSE
    [] v.t = "string" -> v.s # <<>>
    [] v.t = "number" -> v.n # 0

\* a || b
OrElse(a, b) == IF Truthy(a) THEN a ELSE b

\* String(v)
StringOf(v) ==
  CASE v.t = "undefined" -> <<"u", "n", "d", "e", "f", "i", "n", "e", "d">>
    [] v.t = "null" -> <<"n", "u", "l", "l">>
    [] v.t = "string" -> v.s
    [] v.t = "number" -> IntToStr(v.n)

\* An object is the sequence of its own entries [k, v] in insertion order,
\* keys unique.
HasKey(obj, k) == \E i \in 1..Len(obj) : obj[i].k = k

\* obj[k] / obj.k
Get(obj, k) ==
  IF HasKey(obj, k) THEN obj[CHOOSE i \in 1..Len(obj) : obj[i].k = k].v ELSE Undefined

\* { ...obj, k: v }: an existing key keeps its place and takes the new value,
\* a new key is appended.
Put(obj, k, v) ==
  IF HasKey(obj, k)
  THEN [i \in 1..Len(obj) |-> IF obj[i].k = k THEN [k |-> k, v |-> v] ELSE obj[i]]
  ELSE Append(obj, [k |-> k, v |-> v])

\* const { k, ...rest } = obj
RECURSIVE Omit(_, _)
Omit(obj, k) ==
  IF obj = <<>> THEN <<>>
  ELSE IF Head(obj).k = k THEN Omit(Tail(obj), k)
  ELSE <<Head(obj)>> \o Omit(Tail(obj), k)

\* ------------------------------------------------------- query canonicalizer

\* The application/x-www-form-urlencoded byte serializer of
\* URLSearchParams.toString(): ASCII alphanumerics and * - . _ are kept, a
\* space becomes +, every other byte becomes %XX in upper-case hex.
FormEncodeChar(c) ==
  LET b == CodeOf[c] IN
  IF \/ b \in 48..57 \/ b \in 65..90 \/ b \in 97..122 \/ b \in {42, 45, 46, 95}
  THEN <<c>>
  ELSE IF b = 32 THEN <<"+">>
  ELSE <<"%", UpperHexDigits[(b \div 16) + 1], UpperHexDigits[(b % 16) + 1]>>

FormEncode(s) == Concat([i \in 1..Len(s) |-> FormEncodeChar(s[i])])

\* A property name that is an array index: the canonical decimal numeral of
\* an integer (names of the model have at most 9 digits).
IsArrayIndex(k) ==
  /\ Len(k) \in 1..9
  /\ \A i \in 1..Len(k) : CodeOf[k[i]] \in 48..57
  /\ (Len(k) = 1 \/ k[1] # "0")

RECURSIVE IndexValue(_)
IndexValue(k) ==
  IF k = <<>> THEN 0
  ELSE 10 * IndexValue(SubSeq(k, 1, Len(k) - 1)) + (CodeOf[k[Len(k)]] - 48)

\* a < b in the order of Array.prototype.sort: by character code.
LexLess(a, b) ==
  \E i \in 1..(Len(a) + 1) :
    /\ i <= Len(b)
    /\ \A j \in 1..(i - 1) : a[j] = b[j]
    /\ (i = Len(a) + 1 \/ CodeOf[a[i]] < CodeOf[b[i]])

\* Entries that are sorted by name before they are serialized.
ObjectEntries_Sorted(obj) == SortSeq(obj, LAMBDA a, b : LexLess(a.k, b.k))

\* Object.entries(params): the own properties in property order, which is the
\* array-index names in ascending numeric order, then the other names in
\* insertion order.
ObjectEntries(obj) ==
  SortSeq(SelectSeq(obj, LAMBDA e : IsArrayIndex(e.k)),
          LAMBDA a, b : IndexValue(a.k) < IndexValue(b.k))
  \o SelectSeq(obj, LAMBDA e : ~IsArrayIndex(e.k))

\* A filter on truthiness: it drops the empty string and 0 as well.
FilterAbsent_Falsy(obj) == SelectSeq(obj, LAMBDA e : Truthy(e.v))

\* .filter(([, v]) => v !== undefined && v !== null)
FilterAbsent(obj) == SelectSeq(obj, LAMBDA e : e.v # Undefined /\ e.v # Null)

\* .map(([k, v]) => [k, String(v)])
StringifyEntries(obj) == [i \in 1..Len(obj) |-> [k |-> obj[i].k, v |-> StringOf(obj[i].v)]]

\* new URLSearchParams(entries).toString(): name=value pairs joined by &.
SerializePairs(pairs) ==
  Join([i \in 1..Len(pairs) |-> FormEncode(pairs[i].k) \o <<"=">> \o FormEncode(pairs[i].v)],
       <<"&">>)

buildQueryString(params) ==
  SerializePairs(StringifyEntries(FilterAbsent(ObjectEntries(params))))

\* ------------------------------------------------------ signing primitive

\* encoder.encode(text)
Encode(s) == [i \in 1..Len(s) |-> CodeOf[s[i]]]

\* crypto.subtle.sign('HMAC', key, data) is a library call: a 32-byte MAC that
\* depends on every byte of the key and of the data.  It is stood in for by
\* a position-sensitive checksum spread over 32 bytes; the claims use only that it is
\* a function of (key, data) with 32 byte-valued outputs.
RECURSIVE Mix(_, _, _)
Mix(bytes, lo, hi) ==
  IF lo > hi THEN 7
  ELSE IF lo = hi THEN (bytes[lo] * 131 + 17) % 65521
  ELSE (Mix(bytes, lo, (lo + hi) \div 2) * 257
        + Mix(bytes, ((lo + hi) \div 2) + 1, hi) * 31 + 11) % 65521

DigestBytes == 32

HmacDigest(keyBytes, dataBytes) ==
  LET h == (Mix(keyBytes, 1, Len(keyBytes)) * 263 + Mix(dataBytes, 1, Len(dataBytes))) % 65521
  IN [i \in 1..DigestBytes |-> ((h % 256) * i + (h \div 256) * (i + 3) + 13 * i * i) % 256]

\* b.toString(16)
ByteToString16(b) ==
  IF b < 16 THEN <<LowerHexDigits[b + 1]>>
  ELSE <<LowerHexDigits[(b \div 16) + 1], LowerHexDigits[(b % 16) + 1]>>

\* No padding: a byte below 16 is rendered as one digit.
PadStart2_None(s) == s

\* s.padStart(2, '0') on a string of one or two characters
PadStart2(s) == IF Len(s) < 2 THEN <<"0">> \o s ELSE s

\* Array.from(new Uint8Array(signature)).map(...).join('')
HexOfBytes(bytes) == Concat([i \in 1..Len(bytes) |-> PadStart2(ByteToString16(bytes[i]))])

\* hmacSha256Hex(key, data), when importKey accepts the key.
hmacSha256Hex(key, data) == HexOfBytes(HmacDigest(Encode(key), Encode(data)))

\* crypto.subtle.importKey('raw', bytes, HMAC): WebCrypto rejects a key of
\* zero length with a DataError; a runtime that does not enforce the check
\* imports it.  Both outcomes are possible for the empty key.
ImportKeyOutcomes(key) == IF key = <<>> THEN {"imported", "DataError"} ELSE {"imported"}

\* ------------------------------------------------------------ vocabulary

\* Property names read or written by the code, and parameter names of the
\* tool input schemas.
kFields == <<"_", "f", "i", "e", "l", "d", "s">>
kApiKeyArg == <<"B", "I", "N", "A", "N", "C", "E", "_", "A", "P", "I", "_", "K", "E", "Y">>
kSecretKeyArg == <<"B", "I", "N", "A", "N", "C", "E", "_", "S", "E", "C", "R", "E", "T", "_", "K", "E", "Y">>
kTimestamp == <<"t", "i", "m", "e", "s", "t", "a", "m", "p">>
kRecvWindow == <<"r", "e", "c", "v", "W", "i", "n", "d", "o", "w">>
kSignature == <<"s", "i", "g", "n", "a", "t", "u", "r", "e">>
kSymbol == <<"s", "y", "m", "b", "o", "l">>
kLimit == <<"l", "i", "m", "i", "t">>
kSide == <<"s", "i", "d", "e">>
kPrice == <<"p", "r", "i", "c", "e">>
kListenKey == <<"l", "i", "s", "t", "e", "n", "K", "e", "y">>
\* Two names outside the schemas that are array indices.
kTen == <<"1", "0">>
kNine == <<"9">>

Entry(k, v) == [k |-> k, v |-> v]

\* ------------------------------------------------------------ the catalog

\* A catalog in which one tool carries a name the switch of handleToolCall
\* has no case for.
TOOLS_Renamed ==
  << "bn_ping", "bn_server_time", "bn_exchange_info", "bn_order_book",
     "bn_recent_trades", "bn_aggregate_trades", "bn_klines", "bn_avg_price",
     "bn_ticker_24hr", "bn_ticker_price", "bn_book_ticker",
     "bn_new_order", "bn_test_order", "bn_query_order", "bn_cancel_order",
     "bn_cancel_open_orders", "bn_open_orders", "bn_all_orders",
     "bn_account_info", "bn_my_trades",
     "bn_create_listen_key", "bn_keepalive_listen_key", "bn_close_listen_key" >>

\* TOOLS: the names of the catalog, in its order.
TOOLS ==
  << "bn_ping", "bn_server_time", "bn_exchange_info", "bn_order_book",
     "bn_recent_trades", "bn_aggregate_trades", "bn_klines", "bn_avg_price",
     "bn_ticker_24hr", "bn_ticker_price", "bn_book_ticker",
     "bn_new_order", "bn_test_order", "bn_query_order", "bn_cancel_order",
     "bn_cancel_all_orders", "bn_open_orders", "bn_all_orders",
     "bn_account_info", "bn_my_trades",
     "bn_create_listen_key", "bn_keepalive_listen_key", "bn_close_listen_key" >>

ToolNames == {TOOLS[i] : i \in 1..Len(TOOLS)}

\* A list of public tools that lacks the order book.
publicTools_Short ==
  { "bn_ping", "bn_server_time", "bn_exchange_info",
    "bn_recent_trades", "bn_aggregate_trades",
    "bn_klines", "bn_avg_price", "bn_ticker_24hr", "bn_ticker_price",
    "bn_book_ticker" }

\* const publicTools = [...] of the tool handler.
publicTools ==
  { "bn_ping", "bn_server_time", "bn_exchange_info",
    "bn_order_book", "bn_recent_trades", "bn_aggregate_trades",
    "bn_klines", "bn_avg_price", "bn_ticker_24hr", "bn_ticker_price",
    "bn_book_ticker" }

\* The switch of handleToolCall: the facade method a tool name is mapped to
\* and how its argument is shaped: "none" (called without argument),
\* "params" (the stripped arguments), "optional" (the stripped arguments, or
\* undefined when they are empty), "listenKey" (params.listenKey alone).
\* "unknown" is the default branch, which throws.
ToolCase(toolName) ==
  CASE toolName = "bn_ping" -> [fn |-> "ping", shape |-> "none"]
    [] toolName = "bn_server_time" -> [fn |-> "getServerTimePublic", shape |-> "none"]
    [] toolName = "bn_exchange_info" -> [fn |-> "getExchangeInfo", shape |-> "optional"]
    [] toolName = "bn_order_book" -> [fn |-> "getOrderBook", shape |-> "params"]
    [] toolName = "bn_recent_trades" -> [fn |-> "getRecentTrades", shape |-> "params"]
    [] toolName = "bn_aggregate_trades" -> [fn |-> "getAggregateTrades", shape |-> "params"]
    [] toolName = "bn_klines" -> [fn |-> "getKlines", shape |-> "params"]
    [] toolName = "bn_avg_price" -> [fn |-> "getAvgPrice", shape |-> "params"]
    [] toolName = "bn_ticker_24hr" -> [fn |-> "getTicker24hr", shape |-> "optional"]
    [] toolName = "bn_ticker_price" -> [fn |-> "getTickerPrice", shape |-> "optional"]
    [] toolName = "bn_book_ticker" -> [fn |-> "getBookTicker", shape |-> "optional"]
    [] toolName = "bn_new_order" -> [fn |-> "newOrder", shape |-> "params"]
    [] toolName = "bn_test_order" -> [fn |-> "testOrder", shape |-> "params"]
    [] toolName = "bn_query_order" -> [fn |-> "queryOrder", shape |-> "params"]
    [] toolName = "bn_cancel_order" -> [fn |-> "cancelOrder", shape |-> "params"]
    [] toolName = "bn_cancel_all_orders" -> [fn |-> "cancelAllOrders", shape |-> "params"]
    [] toolName = "bn_open_orders" -> [fn |-> "getOpenOrders", shape |-> "optional"]
    [] toolName = "bn_all_orders" -> [fn |-> "getAllOrders", shape |-> "params"]
    [] toolName = "bn_account_info" -> [fn |-> "getAccountInfo", shape |-> "optional"]
    [] toolName = "bn_my_trades" -> [fn |-> "getMyTrades", shape |-> "params"]
    [] toolName = "bn_create_listen_key" -> [fn |-> "createListenKey", shape |-> "none"]
    [] toolName = "bn_keepalive_listen_key" -> [fn |-> "keepaliveListenKey", shape |-> "listenKey"]
    [] toolName = "bn_close_listen_key" -> [fn |-> "closeListenKey", shape |-> "listenKey"]
    [] OTHER -> [fn |-> "unknown", shape |-> "none"]

\* The facade methods of BinanceClient: the request mode each one calls
\* (publicGet, signedRequest, userStreamRequest) with its method and path.
FacadeMethod(fn) ==
  CASE fn = "ping" -> [mode |-> "public", method |-> "GET", path |-> "/api/v3/ping"]
    [] fn = "getServerTimePublic" -> [mode |-> "public", method |-> "GET", path |-> "/api/v3/time"]
    [] fn = "getExchangeInfo" -> [mode |-> "public", method |-> "GET", path |-> "/api/v3/exchangeInfo"]
    [] fn = "getOrderBook" -> [mode |-> "public", method |-> "GET", path |-> "/api/v3/depth"]
    [] fn = "getRecentTrades" -> [mode |-> "public", method |-> "GET", path |-> "/api/v3/trades"]
    [] fn = "getAggregateTrades" -> [mode |-> "public", method |-> "GET", path |-> "/api/v3/aggTrades"]
    [] fn = "getKlines" -> [mode |-> "public", method |-> "GET", path |-> "/api/v3/klines"]
    [] fn = "getAvgPrice" -> [mode |-> "public", method |-> "GET", path |-> "/api/v3/avgPrice"]
    [] fn = "getTicker24hr" -> [mode |-> "public", method |-> "GET", path |-> "/api/v3/ticker/24hr"]
    [] fn = "getTickerPrice" -> [mode |-> "public", method |-> "GET", path |-> "/api/v3/ticker/price"]
    [] fn = "getBookTicker" -> [mode |-> "public", method |-> "GET", path |-> "/api/v3/ticker/bookTicker"]
    [] fn = "newOrder" -> [mode |-> "signed", method |-> "POST", path |-> "/api/v3/order"]
    [] fn = "testOrder" -> [mode |-> "signed", method |-> "POST", path |-> "/api/v3/order/test"]
    [] fn = "queryOrder" -> [mode |-> "signed", method |-> "GET", path |-> "/api/v3/order"]
    [] fn = "cancelOrder" -> [mode |-> "signed", method |-> "DELETE", path |-> "/api/v3/order"]
    [] fn = "cancelAllOrders" -> [mode |-> "signed", method |-> "DELETE", path |-> "/api/v3/openOrders"]
    [] fn = "getOpenOrders" -> [mode |-> "signed", method |-> "GET", path |-> "/api/v3/openOrders"]
    [] fn = "getAllOrders" -> [mode |-> "signed", method |-> "GET", path |-> "/api/v3/allOrders"]
    [] fn = "getAccountInfo" -> [mode |-> "signed", method |-> "GET", path |-> "/api/v3/account"]
    [] fn = "getMyTrades" -> [mode |-> "signed", method |-> "GET", path |-> "/api/v3/myTrades"]
    [] fn = "createListenKey" -> [mode |-> "userStream", method |-> "POST", path |-> "/api/v3/userDataStream"]
    [] fn = "keepaliveListenKey" -> [mode |-> "userStream", method |-> "PUT", path |-> "/api/v3/userDataStream"]
    [] fn = "closeListenKey" -> [mode |-> "userStream", method |-> "DELETE", path |-> "/api/v3/userDataStream"]
    [] OTHER -> [mode |-> "none", method |-> "", path |-> ""]

\* A dispatch that hands the arguments to the facade as they came.
StripFields_Keep(args) == args

\* const { _fields, ...params } = args
StripFields(args) == Omit(args, kFields)

\* The argument the switch hands to the facade method: [present, obj].
\* present is FALSE when the method is called with no argument or with
\* undefined.
FacadeParams(shape, params) ==
  CASE shape = "none" -> [present |-> FALSE, obj |-> <<>>]
    [] shape = "params" -> [present |-> TRUE, obj |-> params]
    [] shape = "optional" ->
         IF Len(params) # 0 THEN [present |-> TRUE, obj |-> params]
         ELSE [present |-> FALSE, obj |-> <<>>]
    [] shape = "listenKey" ->
         [present |-> TRUE, obj |-> <<Entry(kListenKey, Get(params, kListenKey))>>]

\* --------------------------------------------------- requests and responses

\* An outgoing fetch(url, opts).  The url is baseUrl + path, with ?query when
\* hasQuery.  apiKeyHeader is the X-MBX-APIKEY header (Undefined: no such
\* header), contentType the Content-Type header ("": none).
Request(method, path, hasQuery, query, apiKeyHeader, contentType, hasBody, body) ==
  [method |-> method, path |-> path, hasQuery |-> hasQuery, query |-> query,
   apiKeyHeader |-> apiKeyHeader, contentType |-> contentType,
   hasBody |-> hasBody, body |-> body]

\* A decoded or undecodable response body.  k is "empty" (no bytes),
\* "garbage" (bytes that are not JSON), "null" (the JSON value null) or
\* "object" (a JSON object with the fields that are not Undefined).
Body(k, msg, code, message, serverTime) ==
  [k |-> k, msg |-> msg, code |-> code, message |-> message, serverTime |-> serverTime]

EmptyText == Body("empty", Undefined, Undefined, Undefined, Undefined)
Garbage == Body("garbage", Undefined, Undefined, Undefined, Undefined)
JsonNull == Body("null", Undefined, Undefined, Undefined, Undefined)
EmptyObject == Body("object", Undefined, Undefined, Undefined, Undefined)

\* An error value: its class, the template of its message, and the two
\* interpolated parts of the 'Binance API Error ${status}: ${detail}'
\* template (status 0 and detail "" for the other templates).
Err(name, tmpl, status, detail) ==
  [name |-> name, tmpl |-> tmpl, status |-> status, detail |-> detail]

NoErr == Err("", "", 0, <<>>)

\* The settlement of a promise: pending ("none"), fulfilled or rejected.
Pending == [k |-> "none", value |-> EmptyText, err |-> NoErr]
Fulfilled(value) == [k |-> "value", value |-> value, err |-> NoErr]
Rejected(err) == [k |-> "throw", value |-> EmptyText, err |-> err]

\* fetch() rejecting: a network failure.
FetchFailed == Err("TypeError", "fetch failed", 0, <<>>)
\* response.json() / JSON.parse on text that is not JSON.
JsonSyntaxError == Err("SyntaxError", "json", 0, <<>>)
\* Reading a property of null.
NullPropertyError == Err("TypeError", "property of null", 0, <<>>)
\* importKey on a zero-length key.
ZeroLengthKeyError == Err("DataError", "zero-length key", 0, <<>>)
\* throw new Error(`Unknown tool: ${toolName}`)
UnknownToolError == Err("Error", "Unknown tool", 0, <<>>)

\* response.ok
ResponseOk(resp) == resp.status \in 200..299

\* JSON.parse(text) / response.json(): whether the text parses.
Parses(body) == body.k \in {"null", "object"}

\* await response.json().catch(() => ({}))
JsonOrEmptyObject(body) == IF Parses(body) THEN body ELSE EmptyObject

\* throw new Error(`Binance API Error ${status}: ${a || b || statusText}`),
\* where reading a property of null throws a TypeError instead.
ApiError(resp, error, first, second) ==
  IF error.k = "null" THEN NullPropertyError
  ELSE Err("Error", "Binance API Error", resp.status,
           StringOf(OrElse(OrElse(first, second), Str(resp.statusText))))

\* publicGet: msg || message || statusText
PublicApiError(resp) ==
  LET error == JsonOrEmptyObject(resp.body)
  IN ApiError(resp, error, error.msg, error.message)

\* signedRequest and userStreamRequest: msg || code || statusText
KeyedApiError(resp) ==
  LET error == JsonOrEmptyObject(resp.body)
  IN ApiError(resp, error, error.msg, error.code)

\* The settlement of publicGet once fetch has settled with resp.
publicGetOutcome(resp) ==
  IF resp.net = "fail" THEN Rejected(FetchFailed)
  ELSE IF ~ResponseOk(resp) THEN Rejected(PublicApiError(resp))
  ELSE IF ~Parses(resp.body) THEN Rejected(JsonSyntaxError)
  ELSE Fulfilled(resp.body)

\* A response handling that parses the text whatever it is, as publicGet
\* does: the empty text is a syntax error.
keyedOutcome_ParseAlways(resp) ==
  IF resp.net = "fail" THEN Rejected(FetchFailed)
  ELSE IF ~ResponseOk(resp) THEN Rejected(KeyedApiError(resp))
  ELSE IF ~Parses(resp.body) THEN Rejected(JsonSyntaxError)
  ELSE Fulfilled(resp.body)

\* A response handling that takes any text it cannot parse for the empty
\* object.
keyedOutcome_Lenient(resp) ==
  IF resp.net = "fail" THEN Rejected(FetchFailed)
  ELSE IF ~ResponseOk(resp) THEN Rejected(KeyedApiError(resp))
  ELSE IF ~Parses(resp.body) THEN Fulfilled(EmptyObject)
  ELSE Fulfilled(resp.body)

\* The settlement of signedRequest and userStreamRequest once the fetch of
\* the real request has settled with resp: text(), then {} for an empty
\* text, JSON.parse otherwise.
keyedOutcome(resp) ==
  IF resp.net = "fail" THEN Rejected(FetchFailed)
  ELSE IF ~ResponseOk(resp) THEN Rejected(KeyedApiError(resp))
  ELSE IF resp.body.k = "empty" THEN Fulfilled(EmptyObject)
  ELSE IF ~Parses(resp.body) THEN Rejected(JsonSyntaxError)
  ELSE Fulfilled(resp.body)

\* A getServerTime that suppresses a failed fetch and goes on without a
\* server time.
getServerTimeOutcome_Swallow(resp) ==
  IF publicGetOutcome(resp).k = "throw" \/ publicGetOutcome(resp).value.k = "null"
  THEN Fulfilled(EmptyObject)
  ELSE publicGetOutcome(resp)

\* getServerTime: data.serverTime of the publicGet result.
getServerTimeOutcome(resp) ==
  LET data == publicGetOutcome(resp) IN
  IF data.k = "throw" THEN data
  ELSE IF data.value.k = "null" THEN Rejected(NullPropertyError)
  ELSE data

\* publicGet(endpoint, params): the request it fetches.
publicGetRequest(path, p) ==
  LET qs == IF p.present THEN buildQueryString(p.obj) ELSE <<>>
  IN Request("GET", path, qs # <<>>, qs, Undefined, "", FALSE, <<>>)

\* A user-stream request sent as a public one, without the key header.
userStreamFetch_NoHeader(method, path, p, apiKey) ==
  LET qs == IF p.present THEN buildQueryString(p.obj) ELSE <<>>
  IN Request(method, path, qs # <<>>, qs, Undefined, "", FALSE, <<>>)

\* userStreamRequest(method, endpoint, params): the request it fetches.
userStreamFetch(method, path, p, apiKey) ==
  LET qs == IF p.present THEN buildQueryString(p.obj) ELSE <<>>
  IN Request(method, path, qs # <<>>, qs, Str(apiKey), "", FALSE, <<>>)

DefaultRecvWindow == 5000

\* (params?.recvWindow as number) || 5000
RecvWindowOf(p) ==
  OrElse(IF p.present THEN Get(p.obj, kRecvWindow) ELSE Undefined, Num(DefaultRecvWindow))

\* A merge in which a timestamp of the caller wins over the server's.
AllParams_CallerTimestamp(p, serverTime) ==
  LET obj == IF p.present THEN p.obj ELSE <<>>
  IN Put(IF HasKey(obj, kTimestamp) THEN obj ELSE Put(obj, kTimestamp, serverTime),
         kRecvWindow, RecvWindowOf(p))

\* { ...params, timestamp: serverTime, recvWindow: ... }
AllParams(p, serverTime) ==
  Put(Put(IF p.present THEN p.obj ELSE <<>>, kTimestamp, serverTime), kRecvWindow, RecvWindowOf(p))

SignaturePrefix == <<"&", "s", "i", "g", "n", "a", "t", "u", "r", "e", "=">>

\* `${queryString}&signature=${signature}`
SignedQs(queryString, signature) == queryString \o SignaturePrefix \o signature

FormContentType == "application/x-www-form-urlencoded"

\* A dispatch that puts the signed string in the URL for every method, and
\* in the body as well for POST.
signedFetch_QueryAlways(method, path, signedQs, apiKey) ==
  Request(method, path, TRUE, signedQs, Str(apiKey),
          IF method = "POST" THEN FormContentType ELSE "",
          method = "POST",
          IF method = "POST" THEN signedQs ELSE <<>>)

\* signedRequest: the url and fetchOpts of the real request.
signedFetch(method, path, signedQs, apiKey) ==
  Request(method, path,
          method = "GET" \/ method = "DELETE",
          IF method = "GET" \/ method = "DELETE" THEN signedQs ELSE <<>>,
          Str(apiKey),
          IF method = "POST" THEN FormContentType ELSE "",
          method = "POST",
          IF method = "POST" THEN signedQs ELSE <<>>)

TimePath == "/api/v3/time"

\* ------------------------------------------------------------------ inputs

\* Credential strings: ak1/sk1 come from the configuration, the others from
\* tool arguments.
ak1 == <<"a", "k", "1">>
sk1 == <<"s", "k", "1">>
ak2 == <<"a", "k", "2">>
sk2 == <<"s", "k", "2">>
ak3 == <<"a", "k", "3">>
sk3 == <<"s", "k", "3">>

\* The config parameter of the exported createServer(config?: BinanceMcpConfig):
\* absent (what getConfig yields when a key is unset), a full pair, or a pair
\* whose secretKey is the empty string, which the parameter's type admits.
Config(present, apiKey, secretKey) ==
  [present |-> present, apiKey |-> apiKey, secretKey |-> secretKey]

NoConfig == Config(FALSE, <<>>, <<>>)

Configs == {NoConfig, Config(TRUE, ak1, sk1), Config(TRUE, ak1, <<>>)}

\* The credential arguments of a tool call: none, an API key alone, a
\* secret alone, or one of two pairs.
CredentialArgs ==
  { <<>>,
    <<Entry(kApiKeyArg, Str(ak2))>>,
    <<Entry(kSecretKeyArg, Str(sk2))>>,
    <<Entry(kApiKeyArg, Str(ak2)), Entry(kSecretKeyArg, Str(sk2))>>,
    <<Entry(kApiKeyArg, Str(ak3)), Entry(kSecretKeyArg, Str(sk3))>> }

\* The other arguments of a tool call.
sBTC == <<"B", "T", "C", "U", "S", "D", "T">>
sSpaced == <<"A", " ", "&">>
sFieldList == <<"a", ",", "b">>
sListenKey == <<"l", "k">>
sForged == <<"x">>

ParamArgs ==
  { <<>>,
    <<Entry(kSymbol, Str(sBTC)), Entry(kLimit, Num(100)), Entry(kFields, Str(sFieldList))>>,
    <<Entry(kSymbol, Str(sSpaced)), Entry(kRecvWindow, Num(0))>>,
    <<Entry(kRecvWindow, Num(60000)), Entry(kTimestamp, Num(9)), Entry(kSymbol, Str(sBTC))>>,
    <<Entry(kSignature, Str(sForged)), Entry(kSide, Str(<<>>)),
      Entry(kRecvWindow, Null), Entry(kPrice, Undefined)>>,
    <<Entry(kListenKey, Str(sListenKey)), Entry(kFields, Str(sFieldList))>>,
    <<Entry(kSymbol, Str(sBTC)), Entry(kTen, Str(sForged)), Entry(kNine, Num(1))>> }

ArgObjects == {c \o q : c \in CredentialArgs, q \in ParamArgs}

\* What a fetch can settle with.
Response(net, status, statusText, body) ==
  [net |-> net, status |-> status, statusText |-> statusText, body |-> body]

sOK == <<"O", "K">>
sBadRequest == <<"B", "a", "d", " ", "R", "e", "q", "u", "e", "s", "t">>
sServerError == <<"I", "n", "t", "e", "r", "n", "a", "l", " ", "S", "e", "r", "v", "e", "r", " ", "E", "r", "r", "o", "r">>
sInvalidSymbol == <<"I", "n", "v", "a", "l", "i", "d", " ", "s", "y", "m", "b", "o", "l", ".">>
sOther == <<"o", "t", "h", "e", "r">>

InvalidSymbolBody == Body("object", Str(sInvalidSymbol), Num(-1121), Undefined, Undefined)
CodeOnlyBody == Body("object", Undefined, Num(-1121), Undefined, Undefined)
MessageOnlyBody == Body("object", Undefined, Undefined, Str(sOther), Undefined)
TimeBody(t) == Body("object", Undefined, Undefined, Undefined, Num(t))

NetworkFailure == Response("fail", 0, <<>>, EmptyText)
NoResponse == Response("none", 0, <<>>, EmptyText)

Responses ==
  {Response("ok", 200, sOK, b) :
     b \in {EmptyText, Garbage, JsonNull, EmptyObject} \cup {TimeBody(t) : t \in 1..MaxServerTime}}
  \cup {Response("ok", 400, sBadRequest, b) :
     b \in {Garbage, JsonNull, InvalidSymbolBody, CodeOnlyBody, MessageOnlyBody}}
  \cup {Response("ok", 500, sServerError, b) : b \in {EmptyText, InvalidSymbolBody}}
  \cup {NetworkFailure}

\* ------------------------------------------------------------------- state

VARIABLES
  config,  \* the config parameter of createServer
  client,  \* `let client: BinanceClient | null` of createServer
  inv,     \* the tool invocations: one record per slot
  env,         \* process.env: BINANCE_API_KEY and BINANCE_SECRET_KEY
  envAtStart,  \* process.env as the process was started
  transports,  \* the own properties of the transports registry of startHttp
  sessions,    \* the transport and server created by each initializing POST
  last         \* the HTTP request on /mcp being answered and the status of the reply

\* The state of the HTTP entry point.
httpVars == <<env, envAtStart, transports, sessions, last>>

vars == <<config, client, inv, httpVars>>

\* Slot 1 carries the invocations of Spec, one after the other.
Slots == {1, 2}

\* A BinanceClient: its config, or null.
Client(present, apiKey, secretKey) ==
  [present |-> present, apiKey |-> apiKey, secretKey |-> secretKey]

NoClient == Client(FALSE, <<>>, <<>>)

NoParams == [present |-> FALSE, obj |-> <<>>]

\* What the tool handler returns: { content: [{ text }], isError }.  The text
\* is the credentials message ("credentials"), JSON.stringify of value
\* ("json") or `Error: ${message}` of err ("error").
ToolResult(isError, tmpl, value, err) ==
  [returned |-> TRUE, isError |-> isError, tmpl |-> tmpl, value |-> value, err |-> err]

NoResult ==
  [returned |-> FALSE, isError |-> FALSE, tmpl |-> "", value |-> EmptyText, err |-> NoErr]

\* An invocation that has not started.  reqs is the sequence of the fetches
\* it has issued; timeResp and realResp are what the server-time fetch and
\* the real request settled with (NoResponse: not settled).
Idle ==
  [pc |-> "idle", tool |-> "", args |-> <<>>,
   apiKey |-> Undefined, secretKey |-> Undefined,
   dispatched |-> FALSE, created |-> FALSE, cl |-> NoClient,
   mode |-> "none", method |-> "", path |-> "", p |-> NoParams,
   serverTime |-> Undefined, queryString |-> <<>>,
   reqs |-> <<>>, timeResp |-> NoResponse, realResp |-> NoResponse,
   outcome |-> Pending, result |-> NoResult]

\* process.env: the two credential variables, each a string or undefined.
Env(apiKey, secretKey) == [BINANCE_API_KEY |-> apiKey, BINANCE_SECRET_KEY |-> secretKey]

NoEnv == Env(Undefined, Undefined)

\* A transport and server of startHttp: whether the initializing POST has
\* created them, the session id the transport was given ("" before), whether
\* onsessioninitialized and onclose have been called, the credentials in the
\* query string of the initializing POST, and the config and the cached
\* client of the server.
Session(created, sessionId, initialized, closed, qApiKey, qSecretKey, cfg, cl) ==
  [created |-> created, sessionId |-> sessionId, initialized |-> initialized,
   closed |-> closed, qApiKey |-> qApiKey, qSecretKey |-> qSecretKey,
   config |-> cfg, client |-> cl]

NoSession == Session(FALSE, "", FALSE, FALSE, Null, Null, Config(FALSE, <<>>, <<>>), NoClient)

\* An HTTP request on /mcp: its method, its mcp-session-id header ("" when
\* the header is missing), the kind of its JSON-RPC body, and the status of
\* the reply (0: none).  NoExchange: no request is being answered.
Exchange(method, sessionId, body, status) ==
  [method |-> method, sessionId |-> sessionId, body |-> body, status |-> status]

NoExchange == Exchange("", "", "", 0)

\* A server made by createServer(config) and driven over stdio or by a test:
\* the HTTP entry point is not running.
Init ==
  /\ config \in Configs
  /\ client = NoClient
  /\ inv = [i \in Slots |-> Idle]
  /\ env = NoEnv
  /\ envAtStart = NoEnv
  /\ transports = {}
  /\ sessions = [i \in Slots |-> NoSession]
  /\ last = NoExchange

\* ------------------------------------------------------- the tool handler

\* config?.apiKey and config?.secretKey
ConfigApiKey(cfg) == IF cfg.present THEN Str(cfg.apiKey) ELSE Undefined
ConfigSecretKey(cfg) == IF cfg.present THEN Str(cfg.secretKey) ELSE Undefined

\* const apiKey = config?.apiKey || args.BINANCE_API_KEY
EffectiveApiKey(cfg, args) == OrElse(ConfigApiKey(cfg), Get(args, kApiKeyArg))

\* const secretKey = config?.secretKey || args.BINANCE_SECRET_KEY
EffectiveSecretKey(cfg, args) == OrElse(ConfigSecretKey(cfg), Get(args, kSecretKeyArg))

\* A guard that rejects only when both credentials are missing.
MissingCredentials_BothMissing(toolName, apiKey, secretKey) ==
  /\ toolName \notin publicTools
  /\ (~Truthy(apiKey) /\ ~Truthy(secretKey))

\* !publicTools.includes(tool.name) && (!apiKey || !secretKey)
MissingCredentials(toolName, apiKey, secretKey) ==
  /\ toolName \notin publicTools
  /\ (~Truthy(apiKey) \/ ~Truthy(secretKey))

\* !client || config?.apiKey !== apiKey
NeedsNewClient(cl, cfg, apiKey) == ~cl.present \/ ConfigApiKey(cfg) # apiKey

\* new BinanceClient({ apiKey: apiKey || '', secretKey: secretKey || '' })
NewClient(apiKey, secretKey) ==
  Client(TRUE, OrElse(apiKey, Str(<<>>)).s, OrElse(secretKey, Str(<<>>)).s)

\* A handler whose catch is missing the error flag: every settlement is
\* returned as a success result.
ResultOf_AlwaysSuccess(outcome) == ToolResult(FALSE, "json", outcome.value, NoErr)

\* The handler's catch and its return after the await.
ResultOf(outcome) ==
  IF outcome.k = "value" THEN ToolResult(FALSE, "json", outcome.value, NoErr)
  ELSE ToolResult(TRUE, "error", EmptyText, outcome.err)

CredentialsRequired == ToolResult(TRUE, "credentials", EmptyText, NoErr)

\* handleToolCall(toolName, args, cl) up to its first suspension: the facade
\* method is chosen, and the request mode issues its first fetch (the
\* server-time fetch for a signed request, the real request otherwise).
StartCall(toolName, args, cl) ==
  LET tc == ToolCase(toolName)
      fm == FacadeMethod(tc.fn)
      p == FacadeParams(tc.shape, StripFields(args))
      base == [Idle EXCEPT !.tool = toolName, !.args = args, !.dispatched = TRUE,
                           !.cl = cl, !.mode = fm.mode, !.method = fm.method,
                           !.path = fm.path, !.p = p]
  IN CASE fm.mode = "public" ->
            [base EXCEPT !.pc = "real", !.reqs = <<publicGetRequest(fm.path, p)>>]
       [] fm.mode = "userStream" ->
            [base EXCEPT !.pc = "real",
                         !.reqs = <<userStreamFetch(fm.method, fm.path, p, cl.apiKey)>>]
       [] fm.mode = "signed" ->
            [base EXCEPT !.pc = "time", !.reqs = <<publicGetRequest(TimePath, NoParams)>>]
       [] OTHER ->
            [base EXCEPT !.pc = "done", !.outcome = Rejected(UnknownToolError),
                         !.result = ResultOf(Rejected(UnknownToolError))]

\* A registered tool is invoked with args: the handler runs up to its first
\* suspension, or returns the credentials error.
Invoke(i, toolName, args) ==
  /\ inv[i].pc = "idle"
  /\ LET apiKey == EffectiveApiKey(config, args)
         secretKey == EffectiveSecretKey(config, args)
     IN IF MissingCredentials(toolName, apiKey, secretKey)
        THEN /\ inv' = [inv EXCEPT ![i] =
                          [Idle EXCEPT !.pc = "done", !.tool = toolName, !.args = args,
                                       !.apiKey = apiKey, !.secretKey = secretKey,
                                       !.result = CredentialsRequired]]
             /\ UNCHANGED client
        ELSE LET fresh == NeedsNewClient(client, config, apiKey)
                 cl == IF fresh THEN NewClient(apiKey, secretKey) ELSE client
             IN /\ client' = cl
                /\ inv' = [inv EXCEPT ![i] =
                             [StartCall(toolName, args, cl) EXCEPT
                                !.apiKey = apiKey, !.secretKey = secretKey,
                                !.created = fresh]]
  /\ UNCHANGED <<config, httpVars>>

\* The server-time fetch of a signed request settles: getServerTime returns
\* or throws; on return allParams and queryString are built and
\* hmacSha256Hex is called with this.config.secretKey.
TimeReply(i, resp) ==
  /\ inv[i].pc = "time"
  /\ LET out == getServerTimeOutcome(resp) IN
     IF out.k = "throw"
     THEN inv' = [inv EXCEPT ![i].pc = "done", ![i].timeResp = resp,
                             ![i].outcome = out, ![i].result = ResultOf(out)]
     ELSE inv' = [inv EXCEPT ![i].pc = "sign", ![i].timeResp = resp,
                             ![i].serverTime = out.value.serverTime,
                             ![i].queryString =
                               buildQueryString(AllParams(inv[i].p, out.value.serverTime))]
  /\ UNCHANGED <<config, client, httpVars>>

\* A signing step that reads the credentials from the server's cached client
\* at the time it runs, not from the client the invocation was dispatched on.
SignDone_SharedClient(i, imported) ==
  /\ inv[i].pc = "sign"
  /\ imported \in ImportKeyOutcomes(client.secretKey)
  /\ IF imported = "DataError"
     THEN inv' = [inv EXCEPT ![i].pc = "done",
                             ![i].outcome = Rejected(ZeroLengthKeyError),
                             ![i].result = ResultOf(Rejected(ZeroLengthKeyError))]
     ELSE LET signature == hmacSha256Hex(client.secretKey, inv[i].queryString)
              signedQs == SignedQs(inv[i].queryString, signature)
          IN inv' = [inv EXCEPT ![i].pc = "real",
                                ![i].reqs = Append(@, signedFetch(inv[i].method, inv[i].path,
                                                                  signedQs, client.apiKey))]
  /\ UNCHANGED <<config, client, httpVars>>

\* hmacSha256Hex settles: importKey rejects the key, or the signature is
\* returned and the real request is fetched.
SignDone(i, imported) ==
  /\ inv[i].pc = "sign"
  /\ imported \in ImportKeyOutcomes(inv[i].cl.secretKey)
  /\ IF imported = "DataError"
     THEN inv' = [inv EXCEPT ![i].pc = "done",
                             ![i].outcome = Rejected(ZeroLengthKeyError),
                             ![i].result = ResultOf(Rejected(ZeroLengthKeyError))]
     ELSE LET signature == hmacSha256Hex(inv[i].cl.secretKey, inv[i].queryString)
              signedQs == SignedQs(inv[i].queryString, signature)
          IN inv' = [inv EXCEPT ![i].pc = "real",
                                ![i].reqs = Append(@, signedFetch(inv[i].method, inv[i].path,
                                                                  signedQs, inv[i].cl.apiKey))]
  /\ UNCHANGED <<config, client, httpVars>>

\* The fetch of the real request settles and the handler returns.
RealReply(i, resp) ==
  /\ inv[i].pc = "real"
  /\ LET out == IF inv[i].mode = "public" THEN publicGetOutcome(resp) ELSE keyedOutcome(resp)
     IN inv' = [inv EXCEPT ![i].pc = "done", ![i].realResp = resp,
                           ![i].outcome = out, ![i].result = ResultOf(out)]
  /\ UNCHANGED <<config, client, httpVars>>

\* The handler has returned and its frame (arguments, locals, result) is
\* dropped; the slot is free for the next invocation.
Retire(i) ==
  /\ inv[i].pc = "done"
  /\ inv' = [inv EXCEPT ![i] = Idle]
  /\ UNCHANGED <<config, client, httpVars>>

Next ==
  \/ \E toolName \in ToolNames, args \in ArgObjects : Invoke(1, toolName, args)
  \/ \E resp \in Responses : TimeReply(1, resp)
  \/ \E imported \in {"imported", "DataError"} : SignDone(1, imported)
  \/ \E resp \in Responses : RealReply(1, resp)
  \/ Retire(1)

Spec == Init /\ [][Next]_vars

\* Two invocations in flight on one server.  The handler of each runs without
\* interruption up to an await on a fetch or on the signing, so the two
\* interleave at those points only.  The calls are drawn from a signed tool
\* with either body placement, a listen-key tool and a public tool, with two
\* credential pairs and two parameter objects.
ConcurrentTools == {"bn_new_order", "bn_account_info", "bn_create_listen_key", "bn_ping"}

ConcurrentArgs ==
  { c \o q :
      c \in { <<Entry(kApiKeyArg, Str(ak2)), Entry(kSecretKeyArg, Str(sk2))>>,
              <<Entry(kApiKeyArg, Str(ak3)), Entry(kSecretKeyArg, Str(sk3))>> },
      q \in { <<Entry(kSymbol, Str(sBTC)), Entry(kLimit, Num(100)), Entry(kFields, Str(sFieldList))>>,
              <<Entry(kRecvWindow, Num(60000)), Entry(kTimestamp, Num(9)), Entry(kSymbol, Str(sBTC))>> } }

ConcurrentResponses ==
  {Response("ok", 200, sOK, TimeBody(t)) : t \in 1..MaxServerTime} \cup {NetworkFailure}

NextConcurrent ==
  \/ \E i \in Slots, toolName \in ConcurrentTools, args \in ConcurrentArgs : Invoke(i, toolName, args)
  \/ \E i \in Slots, resp \in ConcurrentResponses : TimeReply(i, resp)
  \/ \E i \in Slots, imported \in {"imported", "DataError"} : SignDone(i, imported)
  \/ \E i \in Slots, resp \in ConcurrentResponses : RealReply(i, resp)
  \/ \E i \in Slots : Retire(i)

SpecConcurrent == Init /\ [][NextConcurrent]_vars

\* ------------------------------------------------------ the HTTP entry point

\* getConfig(): the pair read from process.env, or null (no config) unless
\* both variables are set.
getConfig(e) ==
  IF ~Truthy(e.BINANCE_API_KEY) \/ ~Truthy(e.BINANCE_SECRET_KEY) THEN NoConfig
  ELSE Config(TRUE, e.BINANCE_API_KEY.s, e.BINANCE_SECRET_KEY.s)

\* if (qApiKey) process.env.BINANCE_API_KEY = qApiKey;
\* if (qSecretKey) process.env.BINANCE_SECRET_KEY = qSecretKey;
WithQueryCredentials(e, qApiKey, qSecretKey) ==
  Env(IF Truthy(qApiKey) THEN qApiKey ELSE e.BINANCE_API_KEY,
      IF Truthy(qSecretKey) THEN qSecretKey ELSE e.BINANCE_SECRET_KEY)

\* const transports = {}: an object literal, whose prototype is
\* Object.prototype.  A lookup of one of these names finds the inherited
\* property when the object has no own property of that name.
ObjectPrototypeNames == {"constructor", "__proto__"}

\* sessionId names an own property of transports.
Registered(sessionId) == \E t \in transports : t.sessionId = sessionId

\* The transport registered under sessionId.
TransportOf(sessionId) == (CHOOSE t \in transports : t.sessionId = sessionId).transport

\* transports[sessionId] is truthy: an own property, or an inherited one.
LookupTruthy(sessionId) == Registered(sessionId) \/ sessionId \in ObjectPrototypeNames

\* sessionIdGenerator: () => randomUUID().  The ids of different transports
\* differ; the transport in slot s is given the s-th of them.
SessionIdOf(s) == IF s = 1 THEN "0b8e6f5a-session-1" ELSE "7c2d91e4-session-2"

\* The mcp-session-id header of a request: missing (""), an id the server
\* has generated or will generate, or a name of Object.prototype.
SessionIdHeaders == {""} \cup {SessionIdOf(s) : s \in Slots} \cup {"constructor"}

\* url.searchParams.get of the two credential names: null when absent.
QueryCredentials ==
  { [apiKey |-> Null, secretKey |-> Null],
    [apiKey |-> Str(ak2), secretKey |-> Str(sk2)] }

\* The process environment at start: no credentials, or a pair.
StartEnvs == {NoEnv, Env(Str(ak1), Str(sk1))}

\* req.body: an initialize request (isInitializeRequest), or a tools/call
\* request: a listen-key tool without arguments or with a credential pair of
\* the caller, or a public tool.
Bodies ==
  { [kind |-> "initialize", tool |-> "", args |-> <<>>],
    [kind |-> "toolCall", tool |-> "bn_create_listen_key", args |-> <<>>],
    [kind |-> "toolCall", tool |-> "bn_create_listen_key",
     args |-> <<Entry(kApiKeyArg, Str(ak3)), Entry(kSecretKeyArg, Str(sk3))>>],
    [kind |-> "toolCall", tool |-> "bn_ping", args |-> <<>>] }

\* transport.handleRequest is the SDK's: it serves the request, or answers
\* it with an error of its own (an Accept or protocol header it refuses).
LibraryOutcomes == {"serve", "refuse"}

HttpResponses == {Response("ok", 200, sOK, EmptyObject)}

\* startHttp has been called: the registry is empty and nothing was created.
InitHttp ==
  /\ config = NoConfig
  /\ client = NoClient
  /\ inv = [i \in Slots |-> Idle]
  /\ envAtStart \in StartEnvs
  /\ env = envAtStart
  /\ transports = {}
  /\ sessions = [i \in Slots |-> NoSession]
  /\ last = NoExchange

\* transport.onclose: delete transports[sid] when it is there.
OnClose(s) ==
  /\ transports' = {t \in transports : t.sessionId # sessions[s].sessionId}
  /\ sessions' = [sessions EXCEPT ![s].closed = TRUE]

\* The tool handler of the server of session s is invoked: the handler of
\* createServer, on the config and the cached client of that server.
SessionToolCall(s, toolName, args) ==
  /\ inv[s].pc = "idle"
  /\ LET cfg == sessions[s].config
         apiKey == EffectiveApiKey(cfg, args)
         secretKey == EffectiveSecretKey(cfg, args)
     IN IF MissingCredentials(toolName, apiKey, secretKey)
        THEN /\ inv' = [inv EXCEPT ![s] =
                          [Idle EXCEPT !.pc = "done", !.tool = toolName, !.args = args,
                                       !.apiKey = apiKey, !.secretKey = secretKey,
                                       !.result = CredentialsRequired]]
             /\ UNCHANGED sessions
        ELSE LET fresh == NeedsNewClient(sessions[s].client, cfg, apiKey)
                 cl == IF fresh THEN NewClient(apiKey, secretKey) ELSE sessions[s].client
             IN /\ sessions' = [sessions EXCEPT ![s].client = cl]
                /\ inv' = [inv EXCEPT ![s] =
                             [StartCall(toolName, args, cl) EXCEPT
                                !.apiKey = apiKey, !.secretKey = secretKey,
                                !.created = fresh]]

\* app.post('/mcp'): the query credentials are written to process.env; a
\* truthy transports[sessionId] handles the request; a request without
\* session id whose body is an initialize request gets a new transport and a
\* new server made from getConfig(); any other request is answered 400.  An
\* exception is answered 500.
PostMcp(sessionId, q, body, lib) ==
  LET reply(status) == Exchange("POST", sessionId, body.kind, status) IN
  /\ last = NoExchange
  /\ env' = WithQueryCredentials(env, q.apiKey, q.secretKey)
  /\ UNCHANGED <<config, client, envAtStart>>
  /\ IF sessionId # "" /\ LookupTruthy(sessionId)
     THEN IF ~Registered(sessionId)
          THEN \* transport.handleRequest is not a function
               /\ last' = reply(500)
               /\ UNCHANGED <<inv, transports, sessions>>
          ELSE IF lib = "refuse" \/ body.kind = "initialize"
          THEN \* the SDK's own error reply; a second initialize is one
               /\ last' = reply(IF lib = "refuse" THEN 406 ELSE 400)
               /\ UNCHANGED <<inv, transports, sessions>>
          ELSE /\ SessionToolCall(TransportOf(sessionId), body.tool, body.args)
               /\ last' = reply(200)
               /\ UNCHANGED transports
     ELSE IF sessionId = "" /\ body.kind = "initialize"
     THEN /\ \E s \in Slots : ~sessions[s].created
          /\ LET s == CHOOSE f \in Slots :
                        ~sessions[f].created /\ \A g \in Slots : ~sessions[g].created => f <= g
                 cfg == getConfig(env')
             IN IF lib = "serve"
                THEN \* onsessioninitialized(sid)
                     /\ sessions' = [sessions EXCEPT ![s] =
                                       Session(TRUE, SessionIdOf(s), TRUE, FALSE,
                                               q.apiKey, q.secretKey, cfg, NoClient)]
                     /\ transports' = transports \cup
                                        {[sessionId |-> SessionIdOf(s), transport |-> s]}
                     /\ last' = reply(200)
                ELSE /\ sessions' = [sessions EXCEPT ![s] =
                                       Session(TRUE, "", FALSE, FALSE,
                                               q.apiKey, q.secretKey, cfg, NoClient)]
                     /\ last' = reply(406)
                     /\ UNCHANGED transports
          /\ UNCHANGED inv
     ELSE /\ last' = reply(400)
          /\ UNCHANGED <<inv, transports, sessions>>

\* app.get('/mcp'): 400 unless transports[sessionId] is truthy; then
\* transports[sessionId].handleRequest, outside any try.  When the property
\* is an inherited one the call throws in the async handler: the framework
\* answers 500, or the rejection goes unhandled and there is no reply.
GetMcp(sessionId, lib) ==
  LET reply(status) == Exchange("GET", sessionId, "", status) IN
  /\ last = NoExchange
  /\ IF sessionId = "" \/ ~LookupTruthy(sessionId) THEN last' = reply(400)
     ELSE IF ~Registered(sessionId) THEN \E status \in {0, 500} : last' = reply(status)
     ELSE last' = reply(IF lib = "serve" THEN 200 ELSE 406)
  /\ UNCHANGED <<config, client, inv, env, envAtStart, transports, sessions>>

\* app.delete('/mcp'): as app.get; a DELETE the SDK serves closes the
\* transport, which calls onclose.
DeleteMcp(sessionId, lib) ==
  LET reply(status) == Exchange("DELETE", sessionId, "", status) IN
  /\ last = NoExchange
  /\ IF sessionId = "" \/ ~LookupTruthy(sessionId)
     THEN last' = reply(400) /\ UNCHANGED <<transports, sessions>>
     ELSE IF ~Registered(sessionId)
     THEN (\E status \in {0, 500} : last' = reply(status)) /\ UNCHANGED <<transports, sessions>>
     ELSE IF lib = "serve"
     THEN last' = reply(200) /\ OnClose(TransportOf(sessionId))
     ELSE last' = reply(406) /\ UNCHANGED <<transports, sessions>>
  /\ UNCHANGED <<config, client, inv, env, envAtStart>>

\* The SIGINT handler closes a registered transport (close calls onclose)
\* and deletes it from the registry.
CloseTransport(s) ==
  /\ Registered(sessions[s].sessionId)
  /\ OnClose(s)
  /\ UNCHANGED <<config, client, inv, env, envAtStart, last>>

\* The handler of the request has returned and the exchange is over.
Respond ==
  /\ last # NoExchange
  /\ last' = NoExchange
  /\ UNCHANGED <<config, client, inv, env, envAtStart, transports, sessions>>

NextHttp ==
  \/ \E sessionId \in SessionIdHeaders, q \in QueryCredentials, body \in Bodies,
        lib \in LibraryOutcomes : PostMcp(sessionId, q, body, lib)
  \/ \E sessionId \in SessionIdHeaders, lib \in LibraryOutcomes : GetMcp(sessionId, lib)
  \/ \E sessionId \in SessionIdHeaders, lib \in LibraryOutcomes : DeleteMcp(sessionId, lib)
  \/ Respond
  \/ \E s \in Slots : CloseTransport(s)
  \/ \E s \in Slots, resp \in HttpResponses : RealReply(s, resp)
  \/ \E s \in Slots : Retire(s)

SpecHttp == InitHttp /\ [][NextHttp]_vars

\* ---------------------------------------------- reading what was sent

\* s contains sub as a contiguous substring (sub not empty).
Contains(s, sub) ==
  /\ sub # <<>>
  /\ \E i \in 1..(Len(s) - Len(sub) + 1) : SubSeq(s, i, i + Len(sub) - 1) = sub

HasChar(s, c) == \E i \in 1..Len(s) : s[i] = c

FirstIndex(s, c) == CHOOSE i \in 1..Len(s) : s[i] = c /\ \A j \in 1..(i - 1) : s[j] # c

\* The pieces of s between the occurrences of the character c.
Split(s, c) ==
  LET pos == {i \in 1..Len(s) : s[i] = c}
      n == Cardinality(pos)
      At(k) == IF k = 0 THEN 0
               ELSE IF k = n + 1 THEN Len(s) + 1
               ELSE CHOOSE q \in pos : Cardinality({r \in pos : r < q}) = k - 1
  IN [k \in 1..(n + 1) |-> SubSeq(s, At(k - 1) + 1, At(k) - 1)]

\* The name=value components of a query string, as a receiver splits them.
Components(qs) == IF qs = <<>> THEN <<>> ELSE Split(qs, "&")

ComponentKey(comp) == IF HasChar(comp, "=") THEN SubSeq(comp, 1, FirstIndex(comp, "=") - 1) ELSE comp

ComponentValue(comp) ==
  IF HasChar(comp, "=") THEN SubSeq(comp, FirstIndex(comp, "=") + 1, Len(comp)) ELSE <<>>

\* The values the components named key carry, in order.
ValuesOf(qs, key) ==
  LET hits == SelectSeq(Components(qs), LAMBDA comp : ComponentKey(comp) = key)
  IN [j \in 1..Len(hits) |-> ComponentValue(hits[j])]

\* The number of components named key.
CountOf(qs, key) == Len(SelectSeq(Components(qs), LAMBDA comp : ComponentKey(comp) = key))

IsLowerHex(s) == \A j \in 1..Len(s) : \E d \in 1..16 : LowerHexDigits[d] = s[j]

\* The query or body a signed request delivers.
Wire(r) == IF r.hasBody THEN r.body ELSE r.query

\* qs ends with a signature component appended by signing: &signature= and
\* 64 hex digits.
EndsWithSignature(qs) ==
  /\ Len(qs) >= Len(SignaturePrefix) + 2 * DigestBytes
  /\ SubSeq(qs, Len(qs) - 2 * DigestBytes - Len(SignaturePrefix) + 1, Len(qs) - 2 * DigestBytes)
       = SignaturePrefix
  /\ IsLowerHex(SubSeq(qs, Len(qs) - 2 * DigestBytes + 1, Len(qs)))

\* The part of a signed string before the appended signature component, and
\* the value of that component.
SignedPart(qs) == SubSeq(qs, 1, Len(qs) - 2 * DigestBytes - Len(SignaturePrefix))
SignatureValue(qs) == SubSeq(qs, Len(qs) - 2 * DigestBytes + 1, Len(qs))

\* The signed request of invocation i (the second fetch of a signed facade
\* method) has been sent and is in flight.
SentSigned(i) == inv[i].mode = "signed" /\ inv[i].pc = "real" /\ Len(inv[i].reqs) = 2

\* The parameter object the facade method of invocation i was called with.
CallerParams(i) == IF inv[i].p.present THEN inv[i].p.obj ELSE <<>>

\* Every caller parameter that is serialized appears in qs under its name
\* with its encoded value, apart from the two injected names.
CarriesCallerParams(qs, obj) ==
  \A j \in 1..Len(obj) :
    (obj[j].k \notin {kTimestamp, kRecvWindow} /\ obj[j].v # Undefined /\ obj[j].v # Null)
      => ValuesOf(qs, obj[j].k) = <<FormEncode(StringOf(obj[j].v))>>

\* Every component of qs is named by a caller parameter or is one of the two
\* injected fields.
OnlyEnvelopeFields(qs, obj) ==
  \A j \in 1..Len(Components(qs)) :
    \/ ComponentKey(Components(qs)[j]) \in {kTimestamp, kRecvWindow}
    \/ HasKey(obj, ComponentKey(Components(qs)[j]))

\* The signed string w is Q&signature=S with S = sign(secretKey, Q) and Q the
\* canonical string of the caller parameters merged with the injected fields.
EnvelopeShape(i) ==
  LET w == Wire(inv[i].reqs[2])
      Q == SignedPart(w)
  IN /\ EndsWithSignature(w)
     /\ ComponentKey(Components(w)[Len(Components(w))]) = kSignature
     /\ SignatureValue(w) = hmacSha256Hex(inv[i].cl.secretKey, Q)
     /\ CarriesCallerParams(Q, CallerParams(i))
     /\ OnlyEnvelopeFields(Q, CallerParams(i))
     /\ CountOf(Q, kRecvWindow) = 1
     /\ CountOf(Q, kTimestamp) <= 1

\* ------------------------------------------------------------------ claims

\* C1: every signed request sends Q&signature=S, where Q is the canonical
\* query string of the caller parameters merged with timestamp and
\* recvWindow, S = sign(secretKey, Q), signature is the last component, and
\* no signature field occurs inside the signed substring Q.
C1_SignatureNotInsideSignedString ==
  \A i \in Slots :
    SentSigned(i) =>
      /\ EnvelopeShape(i)
      /\ CountOf(SignedPart(Wire(inv[i].reqs[2])), kSignature) = 0

\* The rest of C1 without the last clause: it holds of every signed request.
C1_EnvelopeShapeHolds == \A i \in Slots : SentSigned(i) => EnvelopeShape(i)

\* C2: the secret key value is never part of any outgoing request (query
\* string, body or header), whether the credentials came from the
\* configuration or from the BINANCE_API_KEY / BINANCE_SECRET_KEY arguments.
SecretsOf(i) == {inv[i].secretKey.s, inv[i].cl.secretKey}

C2_SecretNeverSent ==
  \A i \in Slots :
    \A j \in 1..Len(inv[i].reqs) :
      \A secret \in SecretsOf(i) :
        /\ ~Contains(inv[i].reqs[j].query, secret)
        /\ ~Contains(inv[i].reqs[j].body, secret)
        /\ ~Contains(inv[i].reqs[j].apiKeyHeader.s, secret)

\* C3: a signed operation of a client whose secret key is empty fails before
\* any network call: the invocation has issued no fetch.
C3_NoFetchWithoutSecret ==
  \A i \in Slots :
    (inv[i].dispatched /\ inv[i].mode = "signed" /\ inv[i].cl.secretKey = <<>>)
      => Len(inv[i].reqs) = 0

\* The 11 market-data tools; every other tool of the catalog is non-public.
MarketDataTools ==
  { "bn_ping", "bn_server_time", "bn_exchange_info", "bn_order_book", "bn_recent_trades",
    "bn_aggregate_trades", "bn_klines", "bn_avg_price", "bn_ticker_24hr", "bn_ticker_price",
    "bn_book_ticker" }

ListenKeyTools == {"bn_create_listen_key", "bn_keepalive_listen_key", "bn_close_listen_key"}

\* C4: a non-public tool invoked while the effective apiKey or the effective
\* secretKey is missing returns the credentials error (isError true) without
\* calling handleToolCall, without creating or replacing the client, and
\* without any network call.
C4_MissingCredentialsRejected ==
  [][\A i \in Slots :
       ( /\ inv[i].pc = "idle"
         /\ inv'[i].pc # "idle"
         /\ inv'[i].tool \notin MarketDataTools
         /\ \/ ~Truthy(EffectiveApiKey(config, inv'[i].args))
            \/ ~Truthy(EffectiveSecretKey(config, inv'[i].args)) )
       => ( /\ inv'[i].pc = "done"
            /\ inv'[i].result.returned
            /\ inv'[i].result.isError
            /\ inv'[i].result.tmpl = "credentials"
            /\ ~inv'[i].dispatched
            /\ ~inv'[i].created
            /\ inv'[i].reqs = <<>>
            /\ client' = client )]_vars

\* A trading tool called with an API key but no secret, while a client is
\* cached, has been answered with the credentials error.
C4_Witness ==
  \E i \in Slots :
    /\ inv[i].pc = "done"
    /\ inv[i].tool = "bn_new_order"
    /\ Truthy(inv[i].apiKey)
    /\ ~Truthy(inv[i].secretKey)
    /\ inv[i].result = CredentialsRequired
    /\ client.present

\* C5: a listen-key tool invoked with an apiKey and no secretKey is
\* dispatched: one request carrying the API-key header and no signature, and
\* no rejection for missing credentials.
C5_UserStreamNeedsApiKeyOnly ==
  \A i \in Slots :
    ( /\ inv[i].pc # "idle"
      /\ inv[i].tool \in ListenKeyTools
      /\ Truthy(inv[i].apiKey)
      /\ ~Truthy(inv[i].secretKey) )
    => ( /\ inv[i].dispatched
         /\ inv[i].result.tmpl # "credentials"
         /\ Len(inv[i].reqs) = 1
         /\ inv[i].reqs[1].apiKeyHeader = inv[i].apiKey
         /\ ~EndsWithSignature(Wire(inv[i].reqs[1])) )

\* C6: a market-data tool invoked with no apiKey and no secretKey is never
\* rejected for missing credentials: it is dispatched and performs exactly
\* one GET request without API-key header and without signature.
C6_MarketDataNeedsNoCredentials ==
  \A i \in Slots :
    ( /\ inv[i].pc # "idle"
      /\ inv[i].tool \in MarketDataTools
      /\ ~Truthy(EffectiveApiKey(config, inv[i].args))
      /\ ~Truthy(EffectiveSecretKey(config, inv[i].args)) )
    => ( /\ inv[i].dispatched
         /\ inv[i].result.tmpl # "credentials"
         /\ Len(inv[i].reqs) = 1
         /\ inv[i].reqs[1].method = "GET"
         /\ inv[i].reqs[1].apiKeyHeader = Undefined
         /\ ~inv[i].reqs[1].hasBody
         /\ ~EndsWithSignature(inv[i].reqs[1].query) )

\* The order book has been served without credentials through a cached
\* client that holds a credential pair.
C6_Witness ==
  \E i \in Slots :
    /\ inv[i].pc = "done"
    /\ inv[i].tool = "bn_order_book"
    /\ ~Truthy(inv[i].apiKey)
    /\ ~Truthy(inv[i].secretKey)
    /\ ~inv[i].result.isError
    /\ inv[i].cl.secretKey # <<>>

\* C7: in every signed request the timestamp field is the serverTime that
\* the unauthenticated /api/v3/time fetch of the same invocation returned
\* (no timestamp field when it returned none; never the caller's value), and
\* that fetch had settled with success before the signed request was sent.
C7_TimestampIsServerTime ==
  \A i \in Slots :
    SentSigned(i) =>
      LET Q == SignedPart(Wire(inv[i].reqs[2]))
          t == inv[i].timeResp.body.serverTime
      IN /\ inv[i].reqs[1].path = TimePath
         /\ inv[i].reqs[1].method = "GET"
         /\ inv[i].reqs[1].apiKeyHeader = Undefined
         /\ inv[i].timeResp.net = "ok"
         /\ ResponseOk(inv[i].timeResp)
         /\ IF t = Undefined THEN CountOf(Q, kTimestamp) = 0
            ELSE ValuesOf(Q, kTimestamp) = <<FormEncode(StringOf(t))>>

\* A signed request is in flight whose caller supplied a timestamp of its
\* own and whose server-time fetch returned the latest clock value.
C7_Witness ==
  \E i \in Slots :
    /\ SentSigned(i)
    /\ Get(CallerParams(i), kTimestamp) = Num(9)
    /\ inv[i].timeResp.body.serverTime = Num(MaxServerTime)

\* C8: in every signed request recvWindow is params.recvWindow ?? 5000: the
\* caller's value whenever it is not null/undefined (0 included), 5000 only
\* when the caller supplied none.
C8_RecvWindowNullish ==
  \A i \in Slots :
    SentSigned(i) =>
      LET caller == Get(CallerParams(i), kRecvWindow)
          want == IF caller = Undefined \/ caller = Null THEN Num(5000) ELSE caller
      IN ValuesOf(SignedPart(Wire(inv[i].reqs[2])), kRecvWindow) = <<FormEncode(StringOf(want))>>

\* C9: the signed query string is delivered exactly once: as the URL's query
\* with no body for GET and DELETE, as the form-urlencoded body with no URL
\* query for POST; the request always carries X-MBX-APIKEY with the
\* client's apiKey.
C9_SignedDelivery ==
  \A i \in Slots :
    SentSigned(i) =>
      LET r == inv[i].reqs[2] IN
      /\ r.method \in {"GET", "DELETE", "POST"}
      /\ r.apiKeyHeader = Str(inv[i].cl.apiKey)
      /\ r.method \in {"GET", "DELETE"} =>
           /\ r.hasQuery /\ EndsWithSignature(r.query)
           /\ SignedPart(r.query) = inv[i].queryString
           /\ ~r.hasBody /\ r.body = <<>> /\ r.contentType = ""
      /\ r.method = "POST" =>
           /\ r.hasBody /\ EndsWithSignature(r.body)
           /\ SignedPart(r.body) = inv[i].queryString
           /\ r.contentType = "application/x-www-form-urlencoded"
           /\ ~r.hasQuery /\ r.query = <<>>

\* A signed POST is in flight.
C9_Witness ==
  \E i \in Slots :
    /\ SentSigned(i)
    /\ inv[i].tool = "bn_test_order"
    /\ inv[i].reqs[2].method = "POST"
    /\ inv[i].reqs[2].hasBody

\* The response that settled last in invocation i.
LastResponse(i) == IF inv[i].realResp.net # "none" THEN inv[i].realResp ELSE inv[i].timeResp

\* C10: in every request mode a non-success HTTP response raises an error
\* that carries the HTTP status code and, when the body is JSON with a msg,
\* that message; when the body is not JSON, the status text.  It is never
\* returned as a success value.
C10_NonSuccessCarriesStatus ==
  \A i \in Slots :
    (inv[i].pc = "done" /\ LastResponse(i).net = "ok" /\ ~ResponseOk(LastResponse(i)))
    => LET resp == LastResponse(i) IN
       /\ inv[i].result.isError
       /\ inv[i].result.err.status = resp.status
       /\ (resp.body.k = "object" /\ Truthy(resp.body.msg))
            => inv[i].result.err.detail = resp.body.msg.s
       /\ resp.body.k \in {"empty", "garbage"}
            => inv[i].result.err.detail = resp.statusText

\* C11: the error mapping is the same in the three request modes: for every
\* non-success response the error raised is the one publicGet raises for
\* that response and the one userStreamRequest and signedRequest raise.
C11_SameErrorMapping ==
  \A i \in Slots :
    (inv[i].pc = "done" /\ LastResponse(i).net = "ok" /\ ~ResponseOk(LastResponse(i)))
    => /\ inv[i].outcome.k = "throw"
       /\ inv[i].outcome.err = PublicApiError(LastResponse(i))
       /\ inv[i].outcome.err = KeyedApiError(LastResponse(i))

\* C12: a signed or user-stream request whose response has a success status
\* and an empty body returns the empty object: the invocation succeeds with
\* {} and no parse error is raised.
C12_EmptyBodyIsEmptyObject ==
  \A i \in Slots :
    ( /\ inv[i].pc = "done"
      /\ inv[i].mode \in {"signed", "userStream"}
      /\ inv[i].realResp.net = "ok"
      /\ ResponseOk(inv[i].realResp)
      /\ inv[i].realResp.body.k = "empty" )
    => /\ inv[i].outcome = Fulfilled(EmptyObject)
       /\ inv[i].result.returned
       /\ ~inv[i].result.isError
       /\ inv[i].result.value = EmptyObject

\* testOrder was answered HTTP 200 with an empty body and the tool returned
\* a success result.
C12_Witness ==
  \E i \in Slots :
    /\ inv[i].pc = "done"
    /\ inv[i].tool = "bn_test_order"
    /\ inv[i].path = "/api/v3/order/test"
    /\ inv[i].realResp = Response("ok", 200, sOK, EmptyText)
    /\ ~inv[i].result.isError

\* C13: a public call whose response has a success status and an empty body
\* is treated as an empty success object, not as an error.
C13_PublicEmptyBodyIsSuccess ==
  \A i \in Slots :
    ( /\ inv[i].pc = "done"
      /\ inv[i].mode = "public"
      /\ inv[i].realResp.net = "ok"
      /\ ResponseOk(inv[i].realResp)
      /\ inv[i].realResp.body.k = "empty" )
    => /\ ~inv[i].result.isError
       /\ inv[i].result.value = EmptyObject

\* C14: in every request mode a success-status response whose body is not
\* empty and not JSON makes the operation fail with a parse error; it is not
\* turned into an empty object or any other success value.
C14_UnparseableBodyFails ==
  \A i \in Slots :
    ( /\ inv[i].pc = "done"
      /\ LastResponse(i).net = "ok"
      /\ ResponseOk(LastResponse(i))
      /\ LastResponse(i).body.k = "garbage" )
    => /\ inv[i].outcome = Rejected(JsonSyntaxError)
       /\ inv[i].result.returned
       /\ inv[i].result.isError
       /\ inv[i].result.value = EmptyText

\* A signed request whose real response was HTTP 200 with a body that is
\* not JSON has ended in an error.
C14_Witness ==
  \E i \in Slots :
    /\ inv[i].pc = "done"
    /\ inv[i].mode = "signed"
    /\ inv[i].realResp = Response("ok", 200, sOK, Garbage)
    /\ inv[i].result.isError

\* The server-time fetch of invocation i has failed: a transport error or a
\* non-success status.
TimeFetchFailed(i) ==
  \/ inv[i].timeResp.net = "fail"
  \/ inv[i].timeResp.net = "ok" /\ ~ResponseOk(inv[i].timeResp)

\* C15: no retry and no partial sequence after a failure: a signed operation
\* makes at most two network calls, the server-time fetch and then the real
\* request; a public or user-stream operation makes at most one; when the
\* server-time fetch fails the real request is not sent and the failure is
\* returned to the caller.
C15_NoRetryNoPartialSequence ==
  \A i \in Slots :
    /\ Len(inv[i].reqs) <= (IF inv[i].mode = "signed" THEN 2 ELSE 1)
    /\ (inv[i].mode = "signed" /\ Len(inv[i].reqs) >= 1)
         => /\ inv[i].reqs[1].method = "GET"
            /\ inv[i].reqs[1].path = TimePath
    /\ Len(inv[i].reqs) = 2
         => /\ inv[i].timeResp.net = "ok"
            /\ ResponseOk(inv[i].timeResp)
            /\ inv[i].reqs[2].method = inv[i].method
            /\ inv[i].reqs[2].path = inv[i].path
    /\ (inv[i].mode = "signed" /\ TimeFetchFailed(i))
         => /\ Len(inv[i].reqs) = 1
            /\ inv[i].realResp = NoResponse
            /\ inv[i].pc = "done"
            /\ inv[i].outcome.k = "throw"
            /\ inv[i].result.isError
            /\ inv[i].result.err = inv[i].outcome.err
    /\ (inv[i].pc = "done" /\ inv[i].dispatched /\ LastResponse(i).net = "fail")
         => /\ inv[i].result.isError
            /\ inv[i].result.err = FetchFailed

\* A signed operation whose server-time fetch met a transport error has
\* ended with that failure after one network call.
C15_Witness ==
  \E i \in Slots :
    /\ inv[i].pc = "done"
    /\ inv[i].mode = "signed"
    /\ inv[i].timeResp = NetworkFailure
    /\ Len(inv[i].reqs) = 1
    /\ inv[i].result.err = FetchFailed

\* The parameter set invocation i has canonicalized and the string it got:
\* the argument of publicGet / userStreamRequest with the query of the
\* request, or allParams of signedRequest with queryString.
Canonicalized(i) ==
  IF inv[i].mode \in {"public", "userStream"} /\ inv[i].p.present /\ Len(inv[i].reqs) >= 1
  THEN {<<inv[i].p.obj, inv[i].reqs[1].query>>}
  ELSE IF inv[i].mode = "signed" /\ inv[i].pc \in {"sign", "real"}
  THEN {<<AllParams(inv[i].p, inv[i].serverTime), inv[i].queryString>>}
  ELSE {}

\* C16: canonicalizing a parameter set again gives the string the
\* invocation got; no entry whose value is null or undefined occurs in it;
\* every entry whose value is the empty string occurs as `key=`; and the
\* string has one component per retained entry.
C16_CanonicalizerFilters ==
  \A i \in Slots :
    \A c \in Canonicalized(i) :
      LET P == c[1]
          qs == c[2]
      IN /\ buildQueryString(P) = qs
         /\ \A j \in 1..Len(P) :
              /\ (P[j].v = Undefined \/ P[j].v = Null) => CountOf(qs, FormEncode(P[j].k)) = 0
              /\ P[j].v = Str(<<>>)
                   => \E n \in 1..Len(Components(qs)) :
                        Components(qs)[n] = FormEncode(P[j].k) \o <<"=">>
         /\ Len(Components(qs))
              = Cardinality({j \in 1..Len(P) : P[j].v # Undefined /\ P[j].v # Null})

\* The order book was asked with a parameter set that holds a null, an
\* undefined and an empty-string value.
C16_Witness ==
  \E i \in Slots :
    /\ inv[i].tool = "bn_order_book"
    /\ Len(inv[i].reqs) = 1
    /\ Get(inv[i].p.obj, kRecvWindow) = Null
    /\ HasKey(inv[i].p.obj, kPrice)
    /\ Get(inv[i].p.obj, kSide) = Str(<<>>)
    /\ inv[i].reqs[1].hasQuery

\* The names of the components of a query string, in order.
KeysOf(qs) == [n \in 1..Len(Components(qs)) |-> ComponentKey(Components(qs)[n])]

\* The names of the entries of obj that are serialized, in insertion order.
RetainedNames(obj) ==
  LET kept == SelectSeq(obj, LAMBDA e : e.v # Undefined /\ e.v # Null)
  IN [j \in 1..Len(kept) |-> kept[j].k]

\* The caller's parameters without the two names signedRequest writes.
OwnFields(obj) == SelectSeq(obj, LAMBDA e : e.k \notin {kTimestamp, kRecvWindow})

\* The order book is asked with { symbol: "BTCUSDT", limit: 100 }.
OrderBookExample(i) ==
  /\ inv[i].tool = "bn_order_book"
  /\ Len(inv[i].reqs) = 1
  /\ inv[i].p.obj = <<Entry(kSymbol, Str(sBTC)), Entry(kLimit, Num(100))>>

sOrderBookQuery ==
  <<"s", "y", "m", "b", "o", "l", "=", "B", "T", "C", "U", "S", "D", "T", "&",
    "l", "i", "m", "i", "t", "=", "1", "0", "0">>

\* C17 as stated: the retained entries are emitted in the insertion order of
\* the input mapping; the order-book call with {symbol: "BTCUSDT", limit:
\* 100} sends symbol=BTCUSDT&limit=100; in a signed request the caller's
\* fields keep their order and precede the injected timestamp and recvWindow.
C17_InsertionOrder ==
  \A i \in Slots :
    /\ (inv[i].mode \in {"public", "userStream"} /\ inv[i].p.present /\ Len(inv[i].reqs) >= 1)
         => KeysOf(inv[i].reqs[1].query) = RetainedNames(inv[i].p.obj)
    /\ OrderBookExample(i) => inv[i].reqs[1].query = sOrderBookQuery
    /\ SentSigned(i)
         => KeysOf(SignedPart(Wire(inv[i].reqs[2])))
              = RetainedNames(OwnFields(CallerParams(i)))
                \o (IF inv[i].serverTime = Undefined THEN <<>> ELSE <<kTimestamp>>)
                \o <<kRecvWindow>>

\* The place of a name in the merged parameters of a signed request: the
\* caller's place when the caller has a field of that name, after the
\* caller's fields otherwise (timestamp, then recvWindow).
PlaceOf(obj, name) ==
  IF HasKey(obj, name) THEN CHOOSE j \in 1..Len(obj) : obj[j].k = name
  ELSE IF name = kTimestamp THEN Len(obj) + 1
  ELSE Len(obj) + 2

\* names is in property order with respect to the places of obj: array-index
\* names first, ascending by value, then the other names by place.
InPropertyOrder(names, obj) ==
  \A a, b \in 1..Len(names) :
    a < b =>
      \/ IsArrayIndex(names[a]) /\ ~IsArrayIndex(names[b])
      \/ /\ IsArrayIndex(names[a]) /\ IsArrayIndex(names[b])
         /\ IndexValue(names[a]) < IndexValue(names[b])
      \/ /\ ~IsArrayIndex(names[a]) /\ ~IsArrayIndex(names[b])
         /\ PlaceOf(obj, names[a]) < PlaceOf(obj, names[b])

SetOf(seq) == {seq[j] : j \in 1..Len(seq)}

\* C17 as amended: the retained entries are emitted in the property order of
\* the input object (array-index names ascending, then the other names in
\* insertion order, nothing re-sorted); the order-book example holds; in a
\* signed request the injected timestamp and recvWindow follow the caller's
\* fields unless the caller has a field of that name, whose place the
\* injected value then takes.
C17_PropertyOrder ==
  \A i \in Slots :
    /\ (inv[i].mode \in {"public", "userStream"} /\ inv[i].p.present /\ Len(inv[i].reqs) >= 1)
         => LET names == KeysOf(inv[i].reqs[1].query) IN
            /\ SetOf(names) = SetOf(RetainedNames(inv[i].p.obj))
            /\ Len(names) = Len(RetainedNames(inv[i].p.obj))
            /\ InPropertyOrder(names, inv[i].p.obj)
    /\ OrderBookExample(i) => inv[i].reqs[1].query = sOrderBookQuery
    /\ SentSigned(i)
         => LET names == KeysOf(SignedPart(Wire(inv[i].reqs[2])))
                injected == (IF inv[i].serverTime = Undefined THEN {} ELSE {kTimestamp})
                              \cup {kRecvWindow}
            IN /\ SetOf(names) = SetOf(RetainedNames(OwnFields(CallerParams(i)))) \cup injected
               /\ Len(names) = Cardinality(SetOf(names))
               /\ InPropertyOrder(names, CallerParams(i))

\* A signed request is in flight whose caller put recvWindow and timestamp
\* before symbol: the injected values stand at those places.
C17_Witness ==
  \E i \in Slots :
    /\ SentSigned(i)
    /\ KeysOf(SignedPart(Wire(inv[i].reqs[2]))) = <<kRecvWindow, kTimestamp, kSymbol>>
    /\ ValuesOf(SignedPart(Wire(inv[i].reqs[2])), kTimestamp) = <<<<"1">>>>

\* What follows queryString and &signature= in the signed request of
\* invocation i: the output of hmacSha256Hex.
SignOutput(i) ==
  SubSeq(Wire(inv[i].reqs[2]), Len(inv[i].queryString) + Len(SignaturePrefix) + 1,
         Len(Wire(inv[i].reqs[2])))

\* C18: the output of sign is exactly 64 characters, each a lowercase
\* hexadecimal digit, and signing the same (secret, message) pair again
\* gives the same output.
C18_SignIs64LowerHex ==
  \A i \in Slots :
    SentSigned(i) =>
      /\ SubSeq(Wire(inv[i].reqs[2]), 1, Len(inv[i].queryString) + Len(SignaturePrefix))
           = inv[i].queryString \o SignaturePrefix
      /\ Len(SignOutput(i)) = 64
      /\ \A j \in 1..Len(SignOutput(i)) :
           SignOutput(i)[j] \in {"0", "1", "2", "3", "4", "5", "6", "7", "8", "9",
                                 "a", "b", "c", "d", "e", "f"}
      /\ SignOutput(i) = hmacSha256Hex(inv[i].cl.secretKey, inv[i].queryString)

\* A signature is in flight whose digest has a byte below 16 (a digit pair
\* that starts with 0) and a byte with a letter digit.
C18_Witness ==
  \E i \in Slots :
    /\ SentSigned(i)
    /\ inv[i].cl.secretKey # <<>>
    /\ \E j \in 1..32 : SignOutput(i)[2 * j - 1] = "0"
    /\ \E j \in 1..64 : SignOutput(i)[j] \in {"a", "b", "c", "d", "e", "f"}

\* C19: every invocation that has ended has returned a typed result: for a
\* value, isError false and the JSON text of that value; for a failure
\* raised below the handler, isError true and `Error: ` with that failure's
\* message; and no failure (transport error, non-success status, body that
\* does not parse, rejected key) is returned as a success.
C19_TypedResult ==
  \A i \in Slots :
    inv[i].pc = "done" =>
      /\ inv[i].result.returned
      /\ inv[i].outcome.k = "value"
           => inv[i].result = ToolResult(FALSE, "json", inv[i].outcome.value, NoErr)
      /\ inv[i].outcome.k = "throw"
           => inv[i].result = ToolResult(TRUE, "error", EmptyText, inv[i].outcome.err)
      /\ inv[i].outcome.k = "none"
           => inv[i].result = CredentialsRequired /\ ~inv[i].dispatched
      /\ ~inv[i].result.isError
           => /\ inv[i].realResp.net = "ok"
              /\ ResponseOk(inv[i].realResp)
              /\ \/ inv[i].result.value = inv[i].realResp.body /\ Parses(inv[i].realResp.body)
                 \/ inv[i].result.value = EmptyObject /\ inv[i].realResp.body.k = "empty"

\* The klines tool has ended with the transport error of its fetch as an
\* error result.
C19_Witness ==
  \E i \in Slots :
    /\ inv[i].pc = "done"
    /\ inv[i].tool = "bn_klines"
    /\ inv[i].realResp = NetworkFailure
    /\ inv[i].result = ToolResult(TRUE, "error", EmptyText, FetchFailed)

TradingTools ==
  { "bn_new_order", "bn_test_order", "bn_query_order", "bn_open_orders", "bn_all_orders",
    "bn_cancel_order", "bn_cancel_all_orders" }

AccountTools == {"bn_account_info", "bn_my_trades"}

\* The method and request mode the interface table gives a tool.
InterfaceOf(toolName) ==
  CASE toolName \in MarketDataTools -> [method |-> "GET", mode |-> "public"]
    [] toolName \in {"bn_new_order", "bn_test_order"} -> [method |-> "POST", mode |-> "signed"]
    [] toolName \in {"bn_query_order", "bn_open_orders", "bn_all_orders",
                     "bn_account_info", "bn_my_trades"} -> [method |-> "GET", mode |-> "signed"]
    [] toolName \in {"bn_cancel_order", "bn_cancel_all_orders"} ->
         [method |-> "DELETE", mode |-> "signed"]
    [] toolName = "bn_create_listen_key" -> [method |-> "POST", mode |-> "userStream"]
    [] toolName = "bn_keepalive_listen_key" -> [method |-> "PUT", mode |-> "userStream"]
    [] toolName = "bn_close_listen_key" -> [method |-> "DELETE", mode |-> "userStream"]
    [] OTHER -> [method |-> "", mode |-> "absent"]

\* The request that carries the operation of invocation i, once sent: the
\* second fetch of a signed operation, the only fetch of the others.
OperationRequests(i) ==
  IF inv[i].mode = "signed"
  THEN (IF Len(inv[i].reqs) = 2 THEN {inv[i].reqs[2]} ELSE {})
  ELSE {inv[i].reqs[j] : j \in 1..Len(inv[i].reqs)}

\* C20: the catalog holds exactly 23 tools: 11 market data, 7 trading, 2
\* account, 3 user data stream; every tool that is dispatched is handled by
\* handleToolCall (no Unknown tool error) and runs in the request mode and
\* with the method of the interface table.
C20_CatalogMatchesInterface ==
  /\ Len(TOOLS) = 23
  /\ Cardinality(ToolNames) = 23
  /\ ToolNames = MarketDataTools \cup TradingTools \cup AccountTools \cup ListenKeyTools
  /\ Cardinality(MarketDataTools) = 11
  /\ Cardinality(TradingTools) = 7
  /\ Cardinality(AccountTools) = 2
  /\ Cardinality(ListenKeyTools) = 3
  /\ \A i \in Slots :
       inv[i].dispatched =>
         /\ inv[i].outcome.err # UnknownToolError
         /\ inv[i].mode = InterfaceOf(inv[i].tool).mode
         /\ inv[i].method = InterfaceOf(inv[i].tool).method
         /\ Len(inv[i].reqs) >= 1
         /\ \A r \in OperationRequests(i) : r.method = InterfaceOf(inv[i].tool).method

\* The keepalive of a listen key has been sent as a PUT, and the client that
\* sent it is the one cached.
C20_Witness ==
  \E i \in Slots :
    /\ inv[i].tool = "bn_keepalive_listen_key"
    /\ inv[i].dispatched
    /\ Len(inv[i].reqs) = 1
    /\ inv[i].reqs[1].method = "PUT"
    /\ inv[i].reqs[1].path = "/api/v3/userDataStream"
    /\ inv[i].cl = client

\* C21: across the invocations on one server the client is created for the
\* effective credential pair, reused while that pair is the one the cached
\* client was built for, and replaced exactly when the pair has changed: an
\* invocation that is dispatched builds a client if and only if none is
\* cached or the cached one holds another pair.
C21_ClientPerCredentialPair ==
  [][\A i \in Slots :
       (inv[i].pc = "idle" /\ inv'[i].pc # "idle" /\ inv'[i].dispatched)
       => ( inv'[i].created
            <=> ( \/ ~client.present
                  \/ client # NewClient(inv'[i].apiKey, inv'[i].secretKey) ) )]_vars

\* C22: whenever a signed or user-stream request is sent, the apiKey of its
\* header and the secretKey its signature is made with are the effective
\* credential pair of the invocation that sends it, not a pair an earlier
\* invocation left in the cached client.
C22_RequestUsesEffectivePair ==
  \A i \in Slots :
    /\ (inv[i].mode = "userStream" /\ Len(inv[i].reqs) = 1)
         => inv[i].reqs[1].apiKeyHeader = inv[i].apiKey
    /\ SentSigned(i)
         => /\ inv[i].reqs[2].apiKeyHeader = inv[i].apiKey
            /\ SignOutput(i) = hmacSha256Hex(inv[i].secretKey.s, inv[i].queryString)

\* The entries of the arguments of a call other than _fields, as they were
\* passed: same names, same values, same order.
ExchangeArgs(args) == SelectSeq(args, LAMBDA e : e.k # kFields)

\* C24: the _fields argument of a call is removed before dispatch and no
\* request the call sends names it in its query or body, while every other
\* parameter reaches the facade method as it was passed (same names, same
\* values, same order): whole for the methods that take the parameter
\* object, the listenKey alone for the two listen-key methods that take it.
C24_FieldsStripped ==
  \A i \in Slots :
    inv[i].dispatched =>
      /\ ~HasKey(inv[i].p.obj, kFields)
      /\ ToolCase(inv[i].tool).shape = "params"
           => inv[i].p = [present |-> TRUE, obj |-> ExchangeArgs(inv[i].args)]
      /\ ToolCase(inv[i].tool).shape = "optional"
           => /\ CallerParams(i) = ExchangeArgs(inv[i].args)
              /\ inv[i].p.present <=> ExchangeArgs(inv[i].args) # <<>>
      /\ ToolCase(inv[i].tool).shape = "listenKey"
           => inv[i].p.obj = <<Entry(kListenKey, Get(inv[i].args, kListenKey))>>
      /\ \A n \in 1..Len(inv[i].reqs) :
           /\ CountOf(inv[i].reqs[n].query, kFields) = 0
           /\ CountOf(inv[i].reqs[n].body, kFields) = 0

\* A signed call whose arguments carry _fields beside two exchange
\* parameters has sent its request.
C24_Witness ==
  /\ SentSigned(1)
  /\ HasKey(inv[1].args, kFields)
  /\ Len(inv[1].p.obj) >= 2
  /\ inv[1].reqs[2].hasBody

\* The endpoint of the three listen-key methods.
UserStreamPath == "/api/v3/userDataStream"

\* C25: a user-stream request is the only network call of its invocation (no
\* server-time fetch comes before it), carries the client's API key in the
\* X-MBX-APIKEY header, has no body and no timestamp, recvWindow or signature
\* field; and only the three listen-key tools send a request to the
\* user-stream endpoint or in the user-stream mode.
C25_UserStreamRequests ==
  \A i \in Slots :
    /\ (inv[i].dispatched /\ inv[i].mode = "userStream")
         => /\ inv[i].tool \in ListenKeyTools
            /\ Len(inv[i].reqs) = 1
            /\ inv[i].reqs[1].path = UserStreamPath
            /\ inv[i].reqs[1].path # TimePath
            /\ inv[i].reqs[1].apiKeyHeader = Str(inv[i].cl.apiKey)
            /\ inv[i].reqs[1].apiKeyHeader.s # <<>>
            /\ ~inv[i].reqs[1].hasBody
            /\ \A key \in {kTimestamp, kRecvWindow, kSignature} :
                 CountOf(inv[i].reqs[1].query, key) = 0
    /\ (inv[i].dispatched /\ inv[i].tool \in ListenKeyTools) => inv[i].mode = "userStream"
    /\ \A n \in 1..Len(inv[i].reqs) :
         inv[i].reqs[n].path = UserStreamPath => inv[i].mode = "userStream"

\* A keepalive whose arguments name recvWindow and timestamp beside nothing
\* the method takes has sent its PUT and been answered.
C25_Witness ==
  /\ inv[1].tool = "bn_keepalive_listen_key"
  /\ inv[1].pc = "done"
  /\ inv[1].dispatched
  /\ HasKey(inv[1].args, kTimestamp)
  /\ inv[1].reqs[1].method = "PUT"

\* The invocation in slot i is between its dispatch and its return.
InFlight(i) == inv[i].dispatched /\ inv[i].pc \in {"time", "sign", "real"}

\* C23: in every interleaving of two invocations on one server, the signed
\* request of each is built from its own parameters, the server time its own
\* server-time fetch was answered with and the credentials of the client it
\* was dispatched on, whatever the other invocation did meanwhile; and the
\* client an invocation runs on keeps its credentials, and the invocation
\* its parameters, from dispatch to return.
C23_ConcurrentIndependent ==
  [][\A i \in Slots :
       /\ (inv[i].pc # "idle" /\ inv'[i].pc # "idle")
            => /\ inv'[i].cl = inv[i].cl
               /\ inv'[i].p = inv[i].p
               /\ inv'[i].args = inv[i].args
       /\ (inv[i].pc = "idle" /\ inv'[i].dispatched)
            => /\ inv'[i].cl = client'
               /\ CallerParams(i)' = IF ToolCase(inv'[i].tool).shape = "none" THEN <<>>
                                     ELSE ExchangeArgs(inv'[i].args)
       /\ (inv[i].pc = "real" /\ inv'[i].pc # "idle") => inv'[i].reqs = inv[i].reqs
       /\ (inv[i].pc = "sign" /\ SentSigned(i)')
            => /\ inv'[i].queryString =
                    buildQueryString(
                      Put(Put(CallerParams(i)', kTimestamp, inv'[i].timeResp.body.serverTime),
                          kRecvWindow, RecvWindowOf(inv'[i].p)))
               /\ Wire(inv'[i].reqs[2]) =
                    inv'[i].queryString \o SignaturePrefix
                      \o hmacSha256Hex(inv'[i].cl.secretKey, inv'[i].queryString)
               /\ inv'[i].reqs[2].apiKeyHeader = Str(inv'[i].cl.apiKey)]_vars

\* Both invocations have their signed requests in flight, on different
\* clients, with different parameters and different server times; the
\* server's cached client is the one of the invocation dispatched last.
C23_Witness ==
  /\ SentSigned(1) /\ SentSigned(2)
  /\ inv[1].cl # inv[2].cl
  /\ client = inv[2].cl
  /\ inv[1].p # inv[2].p
  /\ inv[1].serverTime # inv[2].serverTime

\* C26: in HTTP mode the credentials in the query string of a POST /mcp stay
\* with the session of that request: the config of the server of a session
\* is made of nothing but the environment the process was started with and
\* the query credentials of the session's own initializing request; and a
\* session initialized without query credentials in a process started
\* without credential variables has no config (it is public-only) and sends
\* no request with an API key other than one its own call passes.
C26_QueryCredentialsStayInSession ==
  \A s \in Slots :
    sessions[s].created =>
      /\ sessions[s].config =
           getConfig(WithQueryCredentials(envAtStart, sessions[s].qApiKey, sessions[s].qSecretKey))
      /\ ( /\ getConfig(envAtStart) = NoConfig
           /\ ~Truthy(sessions[s].qApiKey)
           /\ ~Truthy(sessions[s].qSecretKey) )
         => /\ sessions[s].config = NoConfig
            /\ \A n \in 1..Len(inv[s].reqs) :
                 inv[s].reqs[n].apiKeyHeader # Undefined
                   => inv[s].reqs[n].apiKeyHeader = Get(inv[s].args, kApiKeyArg)

\* The session ids whose transport has completed initialization and has not
\* been closed.
LiveSessionIds ==
  {sessions[s].sessionId : s \in {x \in Slots : sessions[x].initialized /\ ~sessions[x].closed}}

\* A request the registry has no transport for: a POST with an unregistered
\* session id, or with none and a body that is no initialize request; a GET
\* or DELETE with a missing or unregistered session id.
NoTransportFor(r) ==
  \/ /\ r.method = "POST"
     /\ \/ r.sessionId # "" /\ r.sessionId \notin {t.sessionId : t \in transports}
        \/ r.sessionId = "" /\ r.body # "initialize"
  \/ /\ r.method \in {"GET", "DELETE"}
     /\ r.sessionId = "" \/ r.sessionId \notin {t.sessionId : t \in transports}

\* C27: in HTTP mode, after every step the registry holds exactly the session
\* ids whose transport completed initialization and is not closed; a
\* transport and server are created only by a POST without session id whose
\* body is an initialize request; and a request the registry has no
\* transport for is answered 400 and leaves the registry as it was.
C27_RegistryAndRefusals ==
  [][ /\ {t.sessionId : t \in transports'} = LiveSessionIds'
      /\ (\E s \in Slots : ~sessions[s].created /\ sessions'[s].created)
           => /\ last = NoExchange
              /\ last'.method = "POST" /\ last'.sessionId = "" /\ last'.body = "initialize"
      /\ (last = NoExchange /\ last' # NoExchange /\ NoTransportFor(last'))
           => /\ last'.status = 400
              /\ transports' = transports ]_vars

====
